---- MODULE Spec2Model ----
(***************************************************************************)
(* A model of the auto-debugger pipeline of src/error_analyzer.py:         *)
(* StackTraceParser, CodeContextExtractor, LLMAnalyzer and CodeFixer.      *)
(*                                                                         *)
(* Text is modelled as sequences of tokens (strings), files as sequences   *)
(* of lines, exceptions as values: an operation returns a record           *)
(* [exc |-> <class name or "None">, val |-> <value>].                      *)
(***************************************************************************)
EXTENDS Integers, Sequences, FiniteSets, TLC

VARIABLES
    \* ---- CodeFixer (src/error_analyzer.py:283-334) and the disk ----
    fs,            \* the disk: path -> content, NoFile when the path does not exist
    backup_dir,    \* whether ./code_backups exists
    backups,       \* the backup directory: backup name -> content, NoFile when absent
    clock,         \* datetime.now(), in whole seconds
    pc,            \* position of the fixer: "new", "idle", "backup", "write", "done",
                   \* "raised" when apply_fix was left by an exception
    file_changes,  \* fix_suggestion.file_changes of the running apply_fix call
    create_backup, \* the create_backup argument of the running call
    todo,          \* keys of file_changes the for loop has not reached yet
    cur,           \* file_path of the running iteration
    backup_path,   \* _create_backup's backup_path in the running iteration
    results,       \* the results dict of the running call
    fs_before,     \* the disk when the running call started
    io_failed,     \* files whose iteration hit an I/O exception in the running call
    calls,         \* number of apply_fix calls started
    \* ---- StackTraceParser (src/error_analyzer.py:99-143) ----
    exc_info,      \* the exception handed to parse_error: type, value, traceback chain
    error_info,    \* what parse_error returned, NoResult before it ran
    \* ---- CodeContextExtractor._get_file_context (src/error_analyzer.py:65-81) ----
    src_file,      \* the primary file as open/readlines gives it
    line_number,   \* the failing line handed to _get_file_context
    main_context,  \* what _get_file_context returned, NoResult before it ran
    \* ---- LLMAnalyzer (src/error_analyzer.py:146-280) ----
    remote,        \* what the remote call did: the outcome of _call_llm's request
    suggestion,    \* what analyze_and_fix did: [exc, val], NoResult before it ran
    \* ---- CodeContextExtractor.extract_context (src/error_analyzer.py:44-63) ----
    src_disk,      \* the source files: file name -> what open/read gives
    extract_in,    \* the ErrorInfo handed to extract_context
    context,       \* what extract_context did: [exc, val], val the context dict
    \* ---- AutoDebugger.auto_fix_code (src/error_analyzer.py:359-376) ----
    target_run,    \* what reading and executing the target file does
    auto_fix,      \* what auto_fix_code did: [exc, none], none when it returned None
    \* ---- AutoDebugger.apply_fix_with_confirmation (src/error_analyzer.py:378-413) ----
    ui,            \* "off", "prompt" (at input), "applying", "returned", "raised"
    raw,           \* what input() returned last
    choice,        \* raw.lower().strip()
    answer,        \* the value apply_fix_with_confirmation returned
    prompts,       \* number of times input() was called
    \* ---- the web layer (src/debug_web_ui.py:19-105) ----
    web_debugger,  \* the global `debugger`: 0 for None, else the AutoDebugger it names
    heap,          \* the AutoDebugger objects: api_key and model of obj.analyzer
    submitted,     \* what each set-api-key request carries: api_key and model
    set_pc,        \* position of each set-api-key request
    dbg_pc,        \* position of each debug-code request
    dbg_ref,       \* the AutoDebugger a debug-code request loaded from the global
    dbg_headers,   \* the api_key _call_llm put in its headers
    llm_calls      \* the (api_key, model) pairs sent by requests.post

fixer_vars == <<fs, backup_dir, backups, clock, pc, file_changes, create_backup,
                todo, cur, backup_path, results, fs_before, io_failed, calls>>

parser_vars == <<exc_info, error_info>>

context_vars == <<src_file, line_number, main_context>>

analyzer_vars == <<remote, suggestion>>

extractor_vars == <<src_disk, extract_in, context>>

debugger_vars == <<target_run, auto_fix>>

confirm_vars == <<ui, raw, choice, answer, prompts>>

web_vars == <<web_debugger, heap, submitted, set_pc, dbg_pc, dbg_ref, dbg_headers, llm_calls>>

vars == <<fixer_vars, parser_vars, context_vars, analyzer_vars, extractor_vars,
          debugger_vars,
                   confirm_vars, web_vars>>

(***************************************************************************)
(* Bounds of the model.                                                    *)
(***************************************************************************)
MaxClock == 1
MaxCalls == 1

(***************************************************************************)
(* Generic helpers.                                                        *)
(***************************************************************************)
EmptyMap == [x \in {} |-> TRUE]

\* d[k] = v for a Python dict d modelled as a function
DictSet(d, k, v) == [x \in (DOMAIN d) \cup {k} |-> IF x = k THEN v ELSE d[x]]

(***************************************************************************)
(* The disk.  A path is the sequence of its components; a content is a     *)
(* sequence of tokens.                                                     *)
(***************************************************************************)
Paths == { <<"a.py">>, <<"d", "a.py">> }

NoFile == <<"ENOENT">>

\* what a file holds before any fix
OldContent(p) == IF Len(p) = 1 THEN <<"x">> ELSE <<"z">>

\* proposed contents: two that parse, one with an unmatched parenthesis, and a
\* value that is not a string (file_changes comes from decoded JSON)
NonStr == <<"null">>
NewContents == { <<"(", ")">>, <<"y">>, <<"(">>, NonStr }

\* os.path.basename
basename(p) == p[Len(p)]

\* os.path.exists
exists(disk, p) == disk[p] # NoFile

BackupNames == [file_name : {basename(p) : p \in Paths}, timestamp : 0..(MaxClock + 1)]

NoBackup == [file_name |-> "", timestamp |-> 0 - 1]

(***************************************************************************)
(* CodeFixer._validate_python_syntax: ast.parse accepts a string whose     *)
(* parentheses balance (the grammar of the modelled contents), raises      *)
(* SyntaxError on another string and TypeError on a value that is not a    *)
(* string; only SyntaxError is caught there.                               *)
(***************************************************************************)
RECURSIVE Depth(_, _)
Depth(code, d) ==
    IF d < 0 THEN 0 - 1
    ELSE IF code = <<>> THEN d
    ELSE Depth(Tail(code), CASE Head(code) = "(" -> d + 1
                             [] Head(code) = ")" -> d - 1
                             [] OTHER -> d)

ast_parse(code) ==
    IF code = NonStr THEN [exc |-> "TypeError", val |-> FALSE]
    ELSE IF Depth(code, 0) = 0 THEN [exc |-> "None", val |-> TRUE]
    ELSE [exc |-> "SyntaxError", val |-> FALSE]

\* variant: validation that accepts everything
validate_accepts_all(code) == [exc |-> "None", val |-> TRUE]

_validate_python_syntax(code) ==
    LET r == ast_parse(code) IN
    IF r.exc = "None" THEN [exc |-> "None", val |-> TRUE]
    ELSE IF r.exc = "SyntaxError" THEN [exc |-> "None", val |-> FALSE]
    ELSE r

\* the proposed content would be written: validation returns True
Valid(code) == LET r == _validate_python_syntax(code) IN r.exc = "None" /\ r.val

(***************************************************************************)
(* CodeFixer.__init__                                                      *)
(***************************************************************************)
\* variant: the directory left to the first backup
CodeFixer_init_lazy ==
    /\ pc = "new"
    /\ pc' = "idle"
    /\ UNCHANGED <<fs, backup_dir, backups, clock, file_changes, create_backup, todo, cur,
                   backup_path, results, fs_before, io_failed, calls>>
    /\ UNCHANGED <<parser_vars, context_vars, analyzer_vars, extractor_vars, debugger_vars,
                   confirm_vars, web_vars>>

\* lines 286-288: backup_dir.mkdir(exist_ok=True)
CodeFixer_init ==
    /\ UNCHANGED <<parser_vars, context_vars, analyzer_vars, extractor_vars, debugger_vars,
                   confirm_vars, web_vars>>
    /\ pc = "new"
    /\ backup_dir' = TRUE
    /\ pc' = "idle"
    /\ UNCHANGED <<fs, backups, clock, file_changes, create_backup, todo, cur,
                   backup_path, results, fs_before, io_failed, calls>>

(***************************************************************************)
(* CodeFixer.apply_fix: the for loop over file_changes.items().            *)
(***************************************************************************)
\* the loop takes its next key, or the call returns results
NextFile(remaining) ==
    IF remaining = {}
    THEN /\ pc' = "done"
         /\ UNCHANGED <<cur, todo>>
    ELSE \E f \in remaining :
            /\ cur' = f
            /\ todo' = remaining \ {f}
            /\ pc' = "backup"

\* variant: an exception leaves the loop instead of being recorded
abort_on_exception(ok, raised) ==
    /\ results' = IF raised THEN results ELSE DictSet(results, cur, ok)
    /\ io_failed' = IF raised THEN io_failed \cup {cur} ELSE io_failed
    /\ backup_path' = NoBackup
    /\ IF raised THEN pc' = "done" /\ UNCHANGED <<cur, todo>> ELSE NextFile(todo)

\* the end of one iteration: results[file_path] = ok, from line 304, 306 or 310
EndIteration(ok, raised) ==
    /\ results' = DictSet(results, cur, ok)
    /\ io_failed' = IF raised THEN io_failed \cup {cur} ELSE io_failed
    /\ backup_path' = NoBackup
    /\ NextFile(todo)

\* lines 290-294: the call starts
apply_fix_begin(fc, cb) ==
    /\ pc = "idle"
    /\ calls' = calls + 1
    /\ file_changes' = fc
    /\ create_backup' = cb
    /\ results' = EmptyMap
    /\ fs_before' = fs
    /\ io_failed' = {}
    /\ backup_path' = NoBackup
    /\ NextFile(DOMAIN fc)
    /\ UNCHANGED <<fs, backup_dir, backups, clock>>

apply_fix(fc, cb) ==
    /\ UNCHANGED <<parser_vars, context_vars, analyzer_vars, extractor_vars, debugger_vars,
                   confirm_vars, web_vars>>
    /\ calls < MaxCalls
    /\ apply_fix_begin(fc, cb)

\* variant: the existence test inverted
backup_wanted_inverted(f) == create_backup /\ ~exists(fs, f)

\* line 297: if create_backup and os.path.exists(file_path)

BackupWanted(f) == create_backup /\ exists(fs, f)

\* _create_backup's backup_path
BackupName(f) == [file_name |-> basename(f), timestamp |-> clock]

\* lines 296-298, with shutil.copy2 = copyfile then copystat
Backup ==
    /\ UNCHANGED <<parser_vars, context_vars, analyzer_vars, extractor_vars, debugger_vars,
                   confirm_vars, web_vars>>
    /\ pc = "backup"
    /\ IF BackupWanted(cur)
       THEN \/ /\ exists(fs, cur) /\ backup_dir      \* copied
               /\ backups' = [backups EXCEPT ![BackupName(cur)] = fs[cur]]
               /\ backup_path' = BackupName(cur)
               /\ pc' = "write"
               /\ UNCHANGED <<results, io_failed, cur, todo>>
            \/ /\ UNCHANGED backups                  \* copyfile raises
               /\ EndIteration(FALSE, TRUE)
            \/ /\ exists(fs, cur) /\ backup_dir      \* copystat raises
               /\ backups' = [backups EXCEPT ![BackupName(cur)] = fs[cur]]
               /\ EndIteration(FALSE, TRUE)
       ELSE /\ pc' = "write"
            /\ UNCHANGED <<backups, backup_path, results, io_failed, cur, todo>>
    /\ UNCHANGED <<fs, backup_dir, clock, file_changes, create_backup, fs_before, calls>>

\* variant: the file opened for appending
write_appends(old, new) == IF old = NoFile THEN new ELSE old \o new

\* open(file_path, 'w') then f.write(new_content): the content the file ends with
write_text(old, new) == new

\* lines 300-311
Write ==
    /\ UNCHANGED <<parser_vars, context_vars, analyzer_vars, extractor_vars, debugger_vars,
                   confirm_vars, web_vars>>
    /\ pc = "write"
    /\ LET new == file_changes[cur]
           v == _validate_python_syntax(new) IN
       IF v.exc # "None"
       THEN /\ UNCHANGED fs                          \* ast.parse raised
            /\ EndIteration(FALSE, FALSE)
       ELSE IF v.val
       THEN \/ /\ fs' = [fs EXCEPT ![cur] = write_text(fs[cur], new)]
               /\ EndIteration(TRUE, FALSE)
            \/ /\ UNCHANGED fs                       \* open raises
               /\ EndIteration(FALSE, TRUE)
            \/ /\ fs' = [fs EXCEPT ![cur] = <<>>]    \* truncated, then write raises
               /\ EndIteration(FALSE, TRUE)
       ELSE /\ UNCHANGED fs
            /\ EndIteration(FALSE, FALSE)
    /\ UNCHANGED <<backup_dir, backups, clock, file_changes, create_backup,
                   fs_before, calls>>

\* line 313: return results; the call's locals are gone
Return ==
    /\ UNCHANGED <<parser_vars, context_vars, analyzer_vars, extractor_vars, debugger_vars,
                   confirm_vars, web_vars>>
    /\ pc = "done"
    /\ pc' = "idle"
    /\ file_changes' = EmptyMap
    /\ create_backup' = TRUE
    /\ results' = EmptyMap
    /\ fs_before' = fs
    /\ io_failed' = {}
    /\ UNCHANGED <<fs, backup_dir, backups, clock, todo, cur, backup_path, calls>>

\* a second of wall-clock time passes; the clock is read in _create_backup only, so
\* time passing elsewhere shows as time passing before the next backup
Tick ==
    /\ UNCHANGED <<parser_vars, context_vars, analyzer_vars, extractor_vars, debugger_vars,
                   confirm_vars, web_vars>>
    /\ pc = "backup"
    /\ clock < MaxClock
    /\ clock' = clock + 1
    /\ UNCHANGED <<fs, backup_dir, backups, pc, file_changes, create_backup, todo, cur,
                   backup_path, results, fs_before, io_failed, calls>>

FileChanges == UNION { [S -> NewContents] : S \in SUBSET Paths }

FixerInit ==
    /\ fs \in { d \in [Paths -> {NoFile} \cup {OldContent(p) : p \in Paths}] :
                  \A p \in Paths : d[p] \in {NoFile, OldContent(p)} }
    /\ backup_dir = FALSE
    /\ backups = [b \in BackupNames |-> NoFile]
    /\ clock = 0
    /\ pc = "new"
    /\ file_changes = EmptyMap
    /\ create_backup = TRUE
    /\ todo = {}
    /\ cur = <<"a.py">>
    /\ backup_path = NoBackup
    /\ results = EmptyMap
    /\ fs_before = fs
    /\ io_failed = {}
    /\ calls = 0

FixerNext ==
    \/ CodeFixer_init
    \/ \E fc \in FileChanges, cb \in BOOLEAN : apply_fix(fc, cb)
    \/ Backup
    \/ Write
    \/ Return
    \/ Tick

(***************************************************************************)
(* CodeContextExtractor._get_file_context.  A file is what open and        *)
(* readlines give: [exc, val], val the list of lines; a line is a sequence *)
(* of characters ending, but for a last line without one, in "\n".         *)
(***************************************************************************)
context_lines == 10

MaxLines == 23

Max(a, b) == IF a > b THEN a ELSE b

Min(a, b) == IF a < b THEN a ELSE b

Whitespace == {" ", "\t", "\n"}

\* str.rstrip
RECURSIVE rstrip(_)
rstrip(s) ==
    IF s # <<>> /\ s[Len(s)] \in Whitespace THEN rstrip(SubSeq(s, 1, Len(s) - 1)) ELSE s

\* line i of an n-line file: its own text, trailing blanks on the even lines
LineOf(i, n, final_newline) ==
    <<ToString(i)>> \o (IF i % 2 = 0 THEN <<" ">> ELSE <<>>)
                    \o (IF i < n \/ final_newline THEN <<"\n">> ELSE <<>>)

Readable(n, final_newline) ==
    [exc |-> "None", val |-> [i \in 1..n |-> LineOf(i, n, final_newline)]]

Unreadable == [exc |-> "OSError", val |-> <<>>]

NoContext == [kind |-> "none", lines |-> <<>>]

\* variant: a window starting one line late
window_start_short(ln) == Max(0, ln - context_lines)

\* line 71
window_start(ln) == Max(0, ln - context_lines - 1)

\* line 72
window_end(lines, ln) == Min(Len(lines), ln + context_lines)

\* lines 76-77, i the 0-based index
render(lines, i, ln) ==
    [marker |-> IF i = ln - 1 THEN ">>> " ELSE "    ",
     number |-> i + 1,
     text   |-> rstrip(lines[i + 1])]

\* the string returned is the rendered lines joined by "\n"
_get_file_context(file, ln) ==
    IF file.exc # "None"
    THEN [kind |-> "error", lines |-> <<>>]
    ELSE LET start == window_start(ln)
             end == window_end(file.val, ln)
         IN [kind  |-> "excerpt",
             lines |-> [k \in 1..(end - start) |-> render(file.val, start + k - 1, ln)]]

get_file_context ==
    /\ main_context = NoContext
    /\ main_context' = _get_file_context(src_file, line_number)
    /\ UNCHANGED <<src_file, line_number>>
    /\ UNCHANGED <<fixer_vars, parser_vars, analyzer_vars, extractor_vars, debugger_vars,
                   confirm_vars, web_vars>>

(***************************************************************************)
(* StackTraceParser.  A traceback chain is the sequence of its entries,    *)
(* outermost first; a file name is a sequence of tokens.                   *)
(***************************************************************************)
MaxFrames == 4

Frames == {
    [co_filename |-> <<"m", ".py">>,           tb_lineno |-> 1, co_name |-> "<module>"],
    [co_filename |-> <<"m", ".py">>,           tb_lineno |-> 2, co_name |-> "f"],
    [co_filename |-> <<"lib", ".py">>,         tb_lineno |-> 1, co_name |-> "g"],
    [co_filename |-> <<"<", "string", ">">>,   tb_lineno |-> 1, co_name |-> "<module>"],
    [co_filename |-> <<"run">>,                tb_lineno |-> 2, co_name |-> "main"],
    [co_filename |-> <<"<", "gen", ".py">>,    tb_lineno |-> 1, co_name |-> "h"] }

Chains == UNION { [1..n -> Frames] : n \in 1..MaxFrames }

Exceptions == { [type |-> "ZeroDivisionError", value |-> "division by zero"],
                [type |-> "KeyError", value |-> "'k'"] }

\* str.startswith and str.endswith
startswith(s, prefix) == s # <<>> /\ s[1] = prefix

endswith(s, suffix) == s # <<>> /\ s[Len(s)] = suffix

\* traceback.StackSummary.format: more than three equal entries in a row are cut
RECURSIVE_CUTOFF == 3

FrameEntry(fr) ==
    [kind |-> "frame", file |-> fr.co_filename, line |-> fr.tb_lineno,
     name |-> fr.co_name, n |-> 0]

RepeatEntry(count) ==
    [kind |-> "repeated", file |-> <<>>, line |-> 0, name |-> "", n |-> count]

TextEntry(kind, text) ==
    [kind |-> kind, file |-> <<>>, line |-> 0, name |-> text, n |-> 0]

RECURSIVE format_frames(_, _, _)
format_frames(tb, i, count) ==
    LET flush == IF count > RECURSIVE_CUTOFF
                 THEN <<RepeatEntry(count - RECURSIVE_CUTOFF)>> ELSE <<>>
    IN IF i > Len(tb) THEN flush
       ELSE IF i > 1 /\ tb[i] = tb[i - 1]
       THEN (IF count + 1 > RECURSIVE_CUTOFF THEN <<>> ELSE <<FrameEntry(tb[i])>>)
            \o format_frames(tb, i + 1, count + 1)
       ELSE flush \o <<FrameEntry(tb[i])>> \o format_frames(tb, i + 1, 1)

\* line 105: ''.join(traceback.format_exception(...))
format_exception(exc) ==
    <<TextEntry("header", "Traceback (most recent call last):")>>
    \o format_frames(exc.tb, 1, 0)
    \o <<TextEntry(exc.type, exc.value)>>

\* variant: the walk to the end of the chain left out
first_frame(tb, i) == i

\* lines 108-110: while tb.tb_next: tb = tb.tb_next

RECURSIVE last_frame(_, _)
last_frame(tb, i) == IF i < Len(tb) THEN last_frame(tb, i + 1) ELSE i

\* line 140
keeps(file_path) == endswith(file_path, ".py") /\ ~startswith(file_path, "<")

\* variant: only the deepest frame's file
collect_deepest(tb, i) ==
    IF keeps(tb[Len(tb)].co_filename) THEN <<tb[Len(tb)].co_filename>> ELSE <<>>

\* lines 137-142
RECURSIVE collect_files(_, _)
collect_files(tb, i) ==
    IF i > Len(tb) THEN <<>>
    ELSE (IF keeps(tb[i].co_filename) THEN <<tb[i].co_filename>> ELSE <<>>)
         \o collect_files(tb, i + 1)

Range(s) == { s[i] : i \in DOMAIN s }

RECURSIVE Orders(_)
Orders(S) == IF S = {} THEN {<<>>}
             ELSE UNION { { <<x>> \o q : q \in Orders(S \ {x}) } : x \in S }

\* variant: the list returned as collected
keep_duplicates(files) == {files}

\* line 143: list(set(files)), in whatever order the set iterates

list_set(files) == Orders(Range(files))

_extract_files_from_traceback(tb) == list_set(collect_files(tb, 1))

NoErrorInfo ==
    [error_type |-> "", error_message |-> "", file_path |-> <<>>, line_number |-> 0,
     function_name |-> "", stack_trace |-> <<>>, surrounding_code |-> NoContext,
     relevant_files |-> <<>>]

\* lines 102-133; file is what opening the deepest frame's file gives
parse_error_with(exc, file, relevant_files) ==
    LET tb == exc.tb[last_frame(exc.tb, 1)]
        shown == _get_file_context(file, tb.tb_lineno)
    IN [error_type       |-> exc.type,
        error_message    |-> exc.value,
        file_path        |-> tb.co_filename,
        line_number      |-> tb.tb_lineno,
        function_name    |-> tb.co_name,
        stack_trace      |-> format_exception(exc),
        surrounding_code |-> shown,
        relevant_files   |-> relevant_files]

parse_error ==
    /\ error_info = NoErrorInfo
    /\ \E rf \in _extract_files_from_traceback(exc_info.tb) :
          error_info' = parse_error_with(exc_info, src_file, rf)
    /\ UNCHANGED <<exc_info, context_vars>>
    /\ UNCHANGED <<fixer_vars, analyzer_vars, extractor_vars, debugger_vars,
                   confirm_vars, web_vars>>

(***************************************************************************)
(* LLMAnalyzer.  A text is a sequence of tokens; a decoded JSON value is   *)
(* a record [ty, num, str, items]: num a number in hundredths, str the     *)
(* text of a string, items the texts of an array.                          *)
(***************************************************************************)
MaxResponse == 4

JNum(n) == [ty |-> "number", num |-> n, str |-> <<>>, items |-> <<>>]

JStr(s) == [ty |-> "string", num |-> 0, str |-> s, items |-> <<>>]

JNull == [ty |-> "null", num |-> 0, str |-> <<>>, items |-> <<>>]

JArray(xs) == [ty |-> "array", num |-> 0, str |-> <<>>, items |-> xs]

\* a decoded object used as a mapping: members is the mapping itself
JDict(d) == [ty |-> "object", num |-> 0, str |-> <<>>, items |-> <<>>, members |-> d]

JObject == JDict(EmptyMap)

\* the tokens that are one "key": value member of a JSON object
ScalarMembers == { "c=0.85", "c=1.5", "c=-0.2", "c='0.9'", "c='high'", "c=null", "a='txt'",
                   "r='why'", "s=['s1']" }

\* members whose key is "file_changes": null, a list, a string, a number, and objects
\* mapping paths to a string that parses, to one that does not, to a number
FileChangeMembers == { "f=null", "f=['a.py']", "f='a.py'", "f=3", "f={}", "f={a:'y'}",
                       "f={a:'y',d/a:'('}", "f={a:5,d/a:'()'}" }

Members == ScalarMembers \cup FileChangeMembers

MemberKey(tok) ==
    CASE tok \in FileChangeMembers -> "file_changes"
      [] tok = "a='txt'"  -> "analysis"
      [] tok = "r='why'"  -> "root_cause"
      [] tok = "s=['s1']" -> "replication_steps"
      [] OTHER            -> "confidence"

MemberValue(tok) ==
    CASE tok = "c=0.85"   -> JNum(85)
      [] tok = "c=1.5"    -> JNum(150)
      [] tok = "c=-0.2"   -> JNum(0 - 20)
      [] tok = "c='0.9'"  -> JStr(<<"0.9">>)
      [] tok = "c='high'" -> JStr(<<"high">>)
      [] tok = "c=null"   -> JNull
      [] tok = "r='why'"  -> JStr(<<"why">>)
      [] tok = "s=['s1']" -> JArray(<<"s1">>)
      [] tok = "f=null"     -> JNull
      [] tok = "f=['a.py']" -> JArray(<<"a.py">>)
      [] tok = "f='a.py'"   -> JStr(<<"a.py">>)
      [] tok = "f=3"        -> JNum(300)
      [] tok = "f={}"       -> JObject
      [] tok = "f={a:'y'}"  -> JDict(DictSet(EmptyMap, <<"a.py">>, <<"y">>))
      [] tok = "f={a:'y',d/a:'('}" ->
            JDict(DictSet(DictSet(EmptyMap, <<"a.py">>, <<"y">>), <<"d", "a.py">>, <<"(">>))
      [] tok = "f={a:5,d/a:'()'}" ->
            JDict(DictSet(DictSet(EmptyMap, <<"a.py">>, NonStr), <<"d", "a.py">>, <<"(", ")">>))
      [] OTHER            -> JStr(<<"txt">>)

\* the texts of the analyzer's specification are made of these
Tokens == {"{", "}", ",", "prose"} \cup ScalarMembers

Responses == UNION { [1..n -> Tokens] : n \in 0..MaxResponse }

\* what the request of _call_llm can do
RemoteOutcomes ==
    { [kind |-> k, content |-> <<>>] : k \in {"network", "http", "envelope", "null"} }
    \cup { [kind |-> "content", content |-> r] : r \in Responses }

\* except Exception catches every class but these
IsException(e) == e \notin {"KeyboardInterrupt", "SystemExit", "GeneratorExit"}

\* lines 236-240; the value is [is_str, text]
_call_llm(outcome) ==
    CASE outcome.kind = "network"  -> [exc |-> "ConnectionError", val |-> [is_str |-> FALSE, text |-> <<>>]]
      [] outcome.kind = "http"     -> [exc |-> "HTTPError", val |-> [is_str |-> FALSE, text |-> <<>>]]
      [] outcome.kind = "envelope" -> [exc |-> "KeyError", val |-> [is_str |-> FALSE, text |-> <<>>]]
      [] outcome.kind = "null"     -> [exc |-> "None", val |-> [is_str |-> FALSE, text |-> <<>>]]
      [] OTHER                     -> [exc |-> "None", val |-> [is_str |-> TRUE, text |-> outcome.content]]

FixSuggestion(analysis, root_cause, fix_description, replication_steps, confidence, changes) ==
    [analysis          |-> analysis,
     root_cause        |-> root_cause,
     fix_description   |-> fix_description,
     modified_code     |-> JStr(<<>>),
     replication_steps |-> replication_steps,
     confidence        |-> confidence,
     file_changes      |-> changes]

FixSuggestionFields ==
    {"analysis", "root_cause", "fix_description", "modified_code", "replication_steps",
     "confidence", "file_changes"}

\* variant: an opening brace alone is taken as the start of an object
re_search_open_only(text) ==
    LET opens == { i \in DOMAIN text : text[i] = "{" }
    IN IF opens = {}
       THEN [found |-> FALSE, group |-> <<>>]
       ELSE [found |-> TRUE,
             group |-> SubSeq(text, CHOOSE i \in opens : \A j \in opens : i <= j, Len(text))]

\* line 246: re.search(r'\{.*\}', response, re.DOTALL): the first "{" to the last "}"
re_search(text) ==
    LET opens == { i \in DOMAIN text : text[i] = "{" }
        first == IF opens = {} THEN 0 ELSE CHOOSE i \in opens : \A j \in opens : i <= j
        closes == { i \in DOMAIN text : text[i] = "}" /\ i > first }
        last == IF closes = {} THEN 0 ELSE CHOOSE i \in closes : \A j \in closes : i >= j
    IN IF first = 0 \/ last = 0
       THEN [found |-> FALSE, group |-> <<>>]
       ELSE [found |-> TRUE, group |-> SubSeq(text, first, last)]

\* json.loads of "{" ... "}": members separated by commas; a later key replaces an
\* earlier one
RECURSIVE decode_members(_, _, _)
decode_members(inner, i, data) ==
    IF i > Len(inner) THEN [exc |-> "JSONDecodeError", val |-> data]
    ELSE IF inner[i] \notin Members THEN [exc |-> "JSONDecodeError", val |-> data]
    ELSE LET d == DictSet(data, MemberKey(inner[i]), MemberValue(inner[i]))
         IN IF i = Len(inner) THEN [exc |-> "None", val |-> d]
            ELSE IF inner[i + 1] # "," THEN [exc |-> "JSONDecodeError", val |-> data]
            ELSE decode_members(inner, i + 2, d)

json_loads(json_str) ==
    LET inner == SubSeq(json_str, 2, Len(json_str) - 1)
    IN IF inner = <<>> THEN [exc |-> "None", val |-> EmptyMap]
       ELSE decode_members(inner, 1, EmptyMap)

\* variant: the default whatever the object holds
dict_get_default(data, key, default) == default

\* dict.get
dict_get(data, key, default) == IF key \in DOMAIN data THEN data[key] ELSE default

\* float(): of a number, of a string holding one, of anything else
float(v) ==
    CASE v.ty = "number" -> [exc |-> "None", val |-> v.num]
      [] v.ty = "string" -> IF v.str = <<"0.9">> THEN [exc |-> "None", val |-> 90]
                            ELSE [exc |-> "ValueError", val |-> 0]
      [] OTHER           -> [exc |-> "TypeError", val |-> 0]

\* lines 245-270: the body of the try
parse_body(response) ==
    IF ~response.is_str THEN [exc |-> "TypeError", val |-> JNull]
    ELSE LET json_match == re_search(response.text) IN
         IF json_match.found
         THEN LET data == json_loads(json_match.group) IN
              IF data.exc # "None" THEN [exc |-> data.exc, val |-> JNull]
              ELSE LET confidence == float(dict_get(data.val, "confidence", JNum(50))) IN
                   IF confidence.exc # "None" THEN [exc |-> confidence.exc, val |-> JNull]
                   ELSE [exc |-> "None",
                         val |-> FixSuggestion(
                             dict_get(data.val, "analysis", JStr(<<"No analysis provided">>)),
                             dict_get(data.val, "root_cause", JStr(<<"Unknown">>)),
                             dict_get(data.val, "fix_description", JStr(<<"No fix description">>)),
                             dict_get(data.val, "replication_steps", JArray(<<>>)),
                             confidence.val,
                             dict_get(data.val, "file_changes", JObject))]
         ELSE [exc |-> "None",
               val |-> FixSuggestion(
                   JStr(response.text),
                   JStr(<<"Parsed from unstructured response">>),
                   JStr(<<"See analysis for details">>),
                   JArray(<<"Manual analysis required">>),
                   30,
                   JObject)]

\* variant: a parse failure answered like an unstructured response
parse_failed_as_fallback(e, response) ==
    FixSuggestion(
        JStr(IF response.is_str THEN response.text ELSE <<"None">>),
        JStr(<<"Parsed from unstructured response">>),
        JStr(<<"See analysis for details">>),
        JArray(<<"Manual analysis required">>),
        30,
        JObject)

\* lines 271-280: the except clause of _parse_llm_response
parse_failed(e, response) ==
    FixSuggestion(
        JStr(<<"Error parsing LLM response: ", e, "\n\nRaw response:\n">>
             \o (IF response.is_str THEN response.text ELSE <<"None">>)),
        JStr(<<"Response parsing failed">>),
        JStr(<<"Manual intervention required">>),
        JArray(<<"Check LLM response manually">>),
        0,
        JObject)

_parse_llm_response(response) ==
    LET r == parse_body(response) IN
    IF r.exc # "None" /\ IsException(r.exc)
    THEN [exc |-> "None", val |-> parse_failed(r.exc, response)]
    ELSE r

\* lines 162-170: the except clause of analyze_and_fix
call_failed(e) ==
    FixSuggestion(
        JStr(<<"Error calling LLM: ", e>>),
        JStr(<<"Unable to analyze">>),
        JStr(<<"Manual investigation required">>),
        JArray(<<"Run the original code to reproduce">>),
        0,
        JObject)

NoSuggestion == [exc |-> "pending", val |-> call_failed("")]

\* variant: lines 158-160 without the except clause
analyze_unguarded(outcome) ==
    LET response == _call_llm(outcome) IN
    IF response.exc # "None" THEN [exc |-> response.exc, val |-> call_failed(response.exc)]
    ELSE _parse_llm_response(response.val)

\* lines 154-170
analyze_and_fix(outcome) ==
    LET response == _call_llm(outcome)
        r == IF response.exc # "None"
             THEN [exc |-> response.exc, val |-> call_failed(response.exc)]
             ELSE _parse_llm_response(response.val)
    IN IF r.exc # "None" /\ IsException(r.exc)
       THEN [exc |-> "None", val |-> call_failed(r.exc)]
       ELSE r

analyze ==
    /\ suggestion.exc = "pending"
    /\ suggestion' = analyze_and_fix(remote)
    /\ UNCHANGED remote
    /\ UNCHANGED <<fixer_vars, parser_vars, context_vars, extractor_vars, debugger_vars,
                   confirm_vars, web_vars>>

(***************************************************************************)
(* CodeContextExtractor.extract_context.  The source files are a map from  *)
(* file name to what opening and reading the file gives; a missing file    *)
(* raises FileNotFoundError, a file that exists may still not be readable. *)
(***************************************************************************)
LargeLimit == 100

Missing == [exc |-> "FileNotFoundError", val |-> <<>>]

SrcNames == { <<"m", ".py">>, <<"lib", ".py">>, <<"u", ".py">> }

\* open(file_path)
open_file(disk, file_path) ==
    IF file_path \in DOMAIN disk THEN disk[file_path] ELSE Missing

\* os.path.exists(file_path)
path_exists(disk, file_path) == open_file(disk, file_path).exc # "FileNotFoundError"

\* `if main_context:` and `if file_context:`: a string that is not empty
truthy(entry) == entry.kind \in {"error", "too_large"} \/ entry.lines # <<>>

\* variant: the limit taken as exclusive
small_enough_strict(line_count) == line_count < LargeLimit

\* line 91
small_enough(line_count) == line_count <= LargeLimit

\* lines 86-94: the body of the try
full_content_body(file) ==
    IF file.exc # "None" THEN [exc |-> file.exc, val |-> [kind |-> "error", lines |-> <<>>]]
    ELSE LET line_count == Len(file.val) IN
         IF small_enough(line_count)
         THEN [exc |-> "None", val |-> [kind |-> "content", lines |-> file.val]]
         ELSE [exc |-> "None",
               val |-> [kind |-> "too_large", lines |-> <<>>, line_count |-> line_count]]

\* variant: lines 86-94 without the except clause
full_content_unguarded(file) == full_content_body(file)

\* lines 83-96
_get_full_file_content(file) ==
    LET r == full_content_body(file) IN
    IF r.exc # "None" /\ IsException(r.exc)
    THEN [exc |-> "None", val |-> [kind |-> "error", lines |-> <<>>]]
    ELSE r

\* lines 57-61: the loop over error_info.relevant_files, from its i-th element
RECURSIVE extract_related(_, _, _, _)
extract_related(info, disk, i, ctx) ==
    IF i > Len(info.relevant_files) THEN [exc |-> "None", val |-> ctx]
    ELSE LET file_path == info.relevant_files[i] IN
         IF file_path # info.file_path /\ path_exists(disk, file_path)
         THEN LET file_context == _get_full_file_content(open_file(disk, file_path)) IN
              IF file_context.exc # "None" THEN [exc |-> file_context.exc, val |-> ctx]
              ELSE extract_related(info, disk, i + 1,
                                   IF truthy(file_context.val)
                                   THEN DictSet(ctx, file_path, file_context.val)
                                   ELSE ctx)
         ELSE extract_related(info, disk, i + 1, ctx)

\* lines 44-63
extract_context(info, disk) ==
    LET main == _get_file_context(open_file(disk, info.file_path), info.line_number)
    IN extract_related(info, disk, 1,
                       IF truthy(main) THEN DictSet(EmptyMap, info.file_path, main)
                       ELSE EmptyMap)

NoExtract == [exc |-> "pending", val |-> EmptyMap]

extract ==
    /\ context = NoExtract
    /\ context' = extract_context(extract_in, src_disk)
    /\ UNCHANGED <<src_disk, extract_in>>
    /\ UNCHANGED <<fixer_vars, parser_vars, context_vars, analyzer_vars, debugger_vars,
                   confirm_vars, web_vars>>


(***************************************************************************)
(* AutoDebugger.auto_fix_code and debug_exception.  The run of the target  *)
(* is what open, read and exec do: it completes, or raises with the        *)
(* traceback chain sys.exc_info() gives, whose outermost entry is          *)
(* auto_fix_code's own frame and whose exec'd frames are named "<string>". *)
(***************************************************************************)
EngineFile == <<"error_analyzer", ".py">>

\* the target_file argument
TargetFile == <<"m", ".py">>

EngineFrame(line) ==
    [co_filename |-> EngineFile, tb_lineno |-> line, co_name |-> "auto_fix_code"]

ExecFrame(line, name) ==
    [co_filename |-> <<"<", "string", ">">>, tb_lineno |-> line, co_name |-> name]

TargetChains == {
    <<EngineFrame(368), ExecFrame(1, "<module>")>>,
    <<EngineFrame(368), ExecFrame(2, "<module>"), ExecFrame(1, "f")>>,
    <<EngineFrame(368), ExecFrame(1, "<module>"),
      [co_filename |-> <<"lib", ".py">>, tb_lineno |-> 1, co_name |-> "g"]>> }

TargetRuns ==
    { [kind |-> "completes", type |-> "", value |-> "", tb |-> <<>>] }
    \cup { [kind |-> "raises", type |-> "FileNotFoundError", value |-> "No such file",
            tb |-> <<EngineFrame(363)>>],
           [kind |-> "raises", type |-> "SyntaxError", value |-> "invalid syntax",
            tb |-> <<EngineFrame(368)>>] }
    \cup { [kind |-> "raises", type |-> t, value |-> "", tb |-> c] :
              t \in {"ZeroDivisionError", "SystemExit", "KeyboardInterrupt"},
              c \in TargetChains }

NoAutoFix == [exc |-> "pending", none |-> FALSE]

\* lines 346-357: debug_exception, rf the order list(set(files)) came in
debug_exception(exc, rf) ==
    /\ exc_info' = exc
    /\ error_info' = parse_error_with(
                         exc, open_file(src_disk, exc.tb[last_frame(exc.tb, 1)].co_filename), rf)
    /\ context' = extract_context(error_info', src_disk)
    /\ suggestion' = analyze_and_fix(remote)

\* lines 359-376
auto_fix_code ==
    /\ auto_fix = NoAutoFix
    /\ IF target_run.kind = "completes"
       THEN /\ auto_fix' = [exc |-> "None", none |-> TRUE]
            /\ UNCHANGED <<exc_info, error_info, context, suggestion>>
       ELSE IF IsException(target_run.type)
       THEN /\ \E rf \in _extract_files_from_traceback(target_run.tb) :
                  debug_exception([type |-> target_run.type, value |-> target_run.value,
                                   tb |-> target_run.tb], rf)
            /\ auto_fix' = [exc |-> IF context'.exc # "None" THEN context'.exc
                                    ELSE suggestion'.exc,
                            none |-> FALSE]
       ELSE /\ auto_fix' = [exc |-> target_run.type, none |-> FALSE]
            /\ UNCHANGED <<exc_info, error_info, context, suggestion>>
    /\ UNCHANGED <<target_run, remote, src_disk, extract_in>>
    /\ UNCHANGED <<fixer_vars, context_vars, confirm_vars, web_vars>>

(***************************************************************************)
(* AutoDebugger.apply_fix_with_confirmation.  What the user types is a     *)
(* sequence of characters; input() raises EOFError when standard input is  *)
(* at its end.  file_changes holds fix_suggestion.file_changes from the    *)
(* moment the suggestion is handed over.                                   *)
(***************************************************************************)
MaxPrompts == 3

RawInputs == { <<"y">>, <<"Y", " ">>, <<"n">>, <<" ", "N">>, <<"s">>, <<"q">>, <<>>,
               <<"y", "e", "s">> }

\* str.lower
lower(s) ==
    [i \in 1..Len(s) |->
        CASE s[i] = "Y" -> "y" [] s[i] = "N" -> "n" [] s[i] = "S" -> "s" [] OTHER -> s[i]]

\* str.strip
RECURSIVE lstrip(_)
lstrip(s) == IF s # <<>> /\ s[1] \in Whitespace THEN lstrip(Tail(s)) ELSE s

strip(s) == lstrip(rstrip(s))

\* variant: everything but 'n' and 's' taken as consent
on_choice_default_yes(c) ==
    CASE c = <<"n">> -> "returned" [] c = <<"s">> -> "prompt" [] OTHER -> "applying"

\* lines 401-413: where the loop goes on a choice
on_choice(c) ==
    CASE c = <<"y">> -> "applying" [] c = <<"n">> -> "returned" [] OTHER -> "prompt"

\* variant: one updated file is enough
any_succeeded(res) == \E f \in DOMAIN res : res[f]

\* lines 403-406: success_count == total_count
all_succeeded(res) ==
    Cardinality({ f \in DOMAIN res : res[f] }) = Cardinality(DOMAIN res)

\* lines 380-396: the analysis is printed, the loop is entered
confirm_begin ==
    /\ ui = "off"
    /\ pc = "idle"
    /\ ui' = "prompt"
    /\ UNCHANGED <<raw, choice, answer, prompts>>
    /\ UNCHANGED <<fixer_vars, parser_vars, context_vars, analyzer_vars, extractor_vars,
                   debugger_vars, web_vars>>

\* lines 399-413: one turn of the loop on the line the user typed
confirm_input(line) ==
    /\ ui = "prompt"
    /\ prompts < MaxPrompts
    /\ prompts' = prompts + 1
    /\ raw' = line
    /\ choice' = strip(lower(line))
    /\ ui' = on_choice(choice')
    /\ answer' = FALSE
    /\ IF ui' = "applying"
       THEN apply_fix_begin(file_changes, TRUE)
       ELSE UNCHANGED fixer_vars
    /\ UNCHANGED <<parser_vars, context_vars, analyzer_vars, extractor_vars, debugger_vars,
                   web_vars>>

\* line 400: input() raises EOFError, which leaves the method
confirm_eof ==
    /\ ui = "prompt"
    /\ ui' = "raised"
    /\ UNCHANGED <<raw, choice, answer, prompts>>
    /\ UNCHANGED <<fixer_vars, parser_vars, context_vars, analyzer_vars, extractor_vars,
                   debugger_vars, web_vars>>

\* lines 403-406: apply_fix returned its results
confirm_return ==
    /\ ui = "applying"
    /\ pc = "done"
    /\ pc' = "idle"
    /\ ui' = "returned"
    /\ answer' = all_succeeded(results)
    /\ UNCHANGED <<raw, choice, prompts>>
    /\ UNCHANGED <<fs, backup_dir, backups, clock, file_changes, create_backup, todo, cur,
                   backup_path, results, fs_before, io_failed, calls>>
    /\ UNCHANGED <<parser_vars, context_vars, analyzer_vars, extractor_vars, debugger_vars,
                   web_vars>>

(***************************************************************************)
(* The suggestion analyze_and_fix returned, handed to CodeFixer.apply_fix   *)
(* as apply_fix_with_confirmation does at line 403.                        *)
(***************************************************************************)
\* line 294: fix_suggestion.file_changes.items()
dict_items(v) ==
    IF v.ty = "object" THEN [exc |-> "None", val |-> v.members]
    ELSE [exc |-> "AttributeError", val |-> EmptyMap]

\* lines 290-294 on the analyzer's suggestion; the for statement is outside the try,
\* so an exception of .items() leaves apply_fix: pc becomes "raised"
apply_suggestion ==
    /\ suggestion.exc = "None"
    /\ pc = "idle"
    /\ calls < MaxCalls
    /\ LET items == dict_items(suggestion.val.file_changes) IN
       IF items.exc = "None"
       THEN apply_fix_begin(items.val, TRUE)
       ELSE /\ pc' = "raised"
            /\ calls' = calls + 1
            /\ UNCHANGED <<fs, backup_dir, backups, clock, file_changes, create_backup,
                           todo, cur, backup_path, results, fs_before, io_failed>>
    /\ UNCHANGED <<parser_vars, context_vars, analyzer_vars, extractor_vars, debugger_vars,
                   confirm_vars, web_vars>>

(***************************************************************************)
(* The web layer: set_api_key and debug_code of src/debug_web_ui.py, each  *)
(* request served by its own thread, sharing the global `debugger`.  A     *)
(* step is what a thread does between two points where another thread can *)
(* run: a load or a store of the global or of an attribute of the shared   *)
(* object.                                                                 *)
(***************************************************************************)
MaxSetRequests == 2
MaxDebugRequests == 2

SetRequests == 1..MaxSetRequests

DebugRequests == 1..MaxDebugRequests

\* LLMAnalyzer.__init__'s default for model
ConstructorModel == "anthropic/claude-3.5-sonnet"

\* data.get('model', ...)'s default in set_api_key
WebDefaultModel == "deepseek/deepseek-chat-v3-0324:free"

\* what a set-api-key request can carry; "" is an api_key that is missing or empty,
\* "absent" a body without a model
Submissions == [api_key : {"", "k1", "k2"}, model : {"absent", "gpt"}]

\* line 33: data.get('model', 'deepseek/deepseek-chat-v3-0324:free')
model_of(data) == IF data.model = "absent" THEN WebDefaultModel ELSE data.model

NoObject == [api_key |-> "", model |-> ""]

\* lines 31-39: the body is read; without an api_key the request ends; otherwise
\* AutoDebugger(api_key) is constructed (its CodeFixer creates the backup
\* directory) and stored in the global
set_api_key_construct(i) ==
    /\ set_pc[i] = "start"
    /\ IF submitted[i].api_key = ""
       THEN /\ set_pc' = [set_pc EXCEPT ![i] = "done"]
            /\ UNCHANGED <<heap, web_debugger, backup_dir>>
       ELSE /\ heap' = [heap EXCEPT ![i] = [api_key |-> submitted[i].api_key,
                                            model |-> ConstructorModel]]
            /\ web_debugger' = i
            /\ backup_dir' = TRUE
            /\ set_pc' = [set_pc EXCEPT ![i] = "constructed"]
    /\ UNCHANGED <<submitted, dbg_pc, dbg_ref, dbg_headers, llm_calls>>
    /\ UNCHANGED <<fs, backups, clock, pc, file_changes, create_backup, todo, cur,
                   backup_path, results, fs_before, io_failed, calls>>
    /\ UNCHANGED <<parser_vars, context_vars, analyzer_vars, extractor_vars, debugger_vars,
                   confirm_vars>>

\* line 40: debugger.analyzer.model = model, on the object the global names now
set_api_key_model(i) ==
    /\ set_pc[i] = "constructed"
    /\ heap' = [heap EXCEPT ![web_debugger].model = model_of(submitted[i])]
    /\ set_pc' = [set_pc EXCEPT ![i] = "done"]
    /\ UNCHANGED <<web_debugger, submitted, dbg_pc, dbg_ref, dbg_headers, llm_calls>>
    /\ UNCHANGED <<fixer_vars, parser_vars, context_vars, analyzer_vars, extractor_vars,
                   debugger_vars, confirm_vars>>

\* lines 52-53: if not debugger
debug_code_check(j) ==
    /\ dbg_pc[j] = "start"
    /\ dbg_pc' = [dbg_pc EXCEPT ![j] = IF web_debugger = 0 THEN "done" ELSE "checked"]
    /\ UNCHANGED <<web_debugger, heap, submitted, set_pc, dbg_ref, dbg_headers, llm_calls>>
    /\ UNCHANGED <<fixer_vars, parser_vars, context_vars, analyzer_vars, extractor_vars,
                   debugger_vars, confirm_vars>>

\* lines 56-73: the posted code is empty and the request ends, or it is written to a
\* temporary file and debugger.auto_fix_code runs it on the object the global names
\* now: it completes and the request ends, or it raises and the analyzer is called
debug_code_run(j, code) ==
    /\ dbg_pc[j] = "checked"
    /\ IF code = "raises"
       THEN /\ dbg_ref' = [dbg_ref EXCEPT ![j] = web_debugger]
            /\ dbg_pc' = [dbg_pc EXCEPT ![j] = "call_llm"]
       ELSE /\ dbg_pc' = [dbg_pc EXCEPT ![j] = "done"]
            /\ UNCHANGED dbg_ref
    /\ UNCHANGED <<web_debugger, heap, submitted, set_pc, dbg_headers, llm_calls>>
    /\ UNCHANGED <<fixer_vars, parser_vars, context_vars, analyzer_vars, extractor_vars,
                   debugger_vars, confirm_vars>>

\* lines 222-225 of error_analyzer.py: headers, from self.api_key
call_llm_headers(j) ==
    /\ dbg_pc[j] = "call_llm"
    /\ dbg_headers' = [dbg_headers EXCEPT ![j] = heap[dbg_ref[j]].api_key]
    /\ dbg_pc' = [dbg_pc EXCEPT ![j] = "headers"]
    /\ UNCHANGED <<web_debugger, heap, submitted, set_pc, dbg_ref, llm_calls>>
    /\ UNCHANGED <<fixer_vars, parser_vars, context_vars, analyzer_vars, extractor_vars,
                   debugger_vars, confirm_vars>>

\* lines 227-236 of error_analyzer.py: data, from self.model, and requests.post;
\* the request ends with what the analyzer made of the answer
call_llm_post(j) ==
    /\ dbg_pc[j] = "headers"
    /\ llm_calls' = llm_calls \cup {[api_key |-> dbg_headers[j],
                                      model |-> heap[dbg_ref[j]].model]}
    /\ dbg_pc' = [dbg_pc EXCEPT ![j] = "done"]
    /\ UNCHANGED <<web_debugger, heap, submitted, set_pc, dbg_ref, dbg_headers>>
    /\ UNCHANGED <<fixer_vars, parser_vars, context_vars, analyzer_vars, extractor_vars,
                   debugger_vars, confirm_vars>>

(***************************************************************************)
(* Initial states and specifications, one per component.                   *)
(***************************************************************************)
ParserIdle == exc_info = [type |-> "", value |-> "", tb |-> <<>>] /\ error_info = NoErrorInfo

ContextIdle == src_file = Unreadable /\ line_number = 0 /\ main_context = NoContext

AnalyzerIdle == remote = [kind |-> "network", content |-> <<>>] /\ suggestion = NoSuggestion

ExtractorIdle ==
    /\ src_disk = EmptyMap
    /\ extract_in = [file_path |-> <<>>, line_number |-> 0, relevant_files |-> <<>>]
    /\ context = NoExtract

DebuggerIdle ==
    /\ target_run = [kind |-> "completes", type |-> "", value |-> "", tb |-> <<>>]
    /\ auto_fix = NoAutoFix

WebIdle ==
    /\ web_debugger = 0
    /\ heap = <<>>
    /\ submitted = <<>>
    /\ set_pc = <<>>
    /\ dbg_pc = <<>>
    /\ dbg_ref = <<>>
    /\ dbg_headers = <<>>
    /\ llm_calls = {}

ConfirmIdle == ui = "off" /\ raw = <<>> /\ choice = <<>> /\ answer = FALSE /\ prompts = 0

\* the fixer and its disk
Init ==
    /\ FixerInit /\ ParserIdle /\ ContextIdle /\ AnalyzerIdle
    /\ ExtractorIdle /\ DebuggerIdle /\ ConfirmIdle /\ WebIdle

Next == FixerNext

Spec == Init /\ [][Next]_vars

FixerIdle ==
    /\ fs = [p \in Paths |-> NoFile]
    /\ backup_dir = FALSE
    /\ backups = [b \in BackupNames |-> NoFile]
    /\ clock = 0
    /\ pc = "new"
    /\ file_changes = EmptyMap
    /\ create_backup = TRUE
    /\ todo = {}
    /\ cur = <<"a.py">>
    /\ backup_path = NoBackup
    /\ results = EmptyMap
    /\ fs_before = fs
    /\ io_failed = {}
    /\ calls = 0

\* parse_error on every traceback chain
ParserInit ==
    /\ FixerIdle /\ AnalyzerIdle /\ ExtractorIdle /\ DebuggerIdle /\ ConfirmIdle /\ WebIdle
    /\ exc_info \in { [type |-> e.type, value |-> e.value, tb |-> c] :
                          e \in Exceptions, c \in Chains }
    /\ error_info = NoErrorInfo
    /\ src_file \in {Unreadable, Readable(2, TRUE)}
    /\ line_number = 0
    /\ main_context = NoContext

ParserNext == parse_error

SpecParser == ParserInit /\ [][ParserNext]_vars

\* _get_file_context on every file and line
ContextInit ==
    /\ FixerIdle /\ ParserIdle /\ AnalyzerIdle
    /\ ExtractorIdle /\ DebuggerIdle /\ ConfirmIdle /\ WebIdle
    /\ src_file \in {Unreadable}
                    \cup { Readable(n, nl) : n \in 0..MaxLines, nl \in BOOLEAN }
    /\ line_number \in 0..(MaxLines + 1)
    /\ main_context = NoContext

ContextNext == get_file_context

SpecContext == ContextInit /\ [][ContextNext]_vars

\* analyze_and_fix on every outcome of the remote call
AnalyzerInit ==
    /\ FixerIdle /\ ParserIdle /\ ContextIdle
    /\ ExtractorIdle /\ DebuggerIdle /\ ConfirmIdle /\ WebIdle
    /\ remote \in RemoteOutcomes
    /\ suggestion = NoSuggestion

AnalyzerNext == analyze

SpecAnalyzer == AnalyzerInit /\ [][AnalyzerNext]_vars

\* the files a source disk can hold
SourceDisks ==
    { d \in [SrcNames -> {Missing, Unreadable, Readable(0, TRUE), Readable(2, TRUE),
                          Readable(LargeLimit, TRUE), Readable(LargeLimit + 1, TRUE)}] :
        d[<<"u", ".py">>] \in {Missing, Readable(2, TRUE)} }

\* extract_context on every ErrorInfo and disk
ExtractorInit ==
    /\ FixerIdle /\ ParserIdle /\ ContextIdle /\ AnalyzerIdle /\ DebuggerIdle /\ ConfirmIdle /\ WebIdle
    /\ src_disk \in SourceDisks
    /\ extract_in \in [file_path : {<<"m", ".py">>, <<"lib", ".py">>, <<"<", "string", ">">>},
                       line_number : {1, 2},
                       relevant_files : UNION { Orders(S) : S \in SUBSET SrcNames }]
    /\ context = NoExtract

ExtractorNext == extract

SpecExtractor == ExtractorInit /\ [][ExtractorNext]_vars

\* auto_fix_code on every run of the target and every outcome of the remote call
DebuggerInit ==
    /\ FixerIdle /\ ContextIdle /\ ConfirmIdle /\ WebIdle
    /\ exc_info = [type |-> "", value |-> "", tb |-> <<>>]
    /\ error_info = NoErrorInfo
    /\ \E lib \in {Missing, Readable(2, TRUE), Readable(LargeLimit, TRUE)} :
          src_disk = [f \in SrcNames \cup {EngineFile} |->
                        CASE f = EngineFile -> Readable(LargeLimit + 1, TRUE)
                          [] f = TargetFile -> Readable(2, TRUE)
                          [] f = <<"lib", ".py">> -> lib
                          [] OTHER -> Missing]
    /\ extract_in = [file_path |-> <<>>, line_number |-> 0, relevant_files |-> <<>>]
    /\ context = NoExtract
    /\ target_run \in TargetRuns
    /\ remote \in { [kind |-> k, content |-> <<>>] :
                        k \in {"network", "http", "envelope", "null"} }
                  \cup { [kind |-> "content", content |-> r] :
                            r \in {<<>>} \cup { <<t>> : t \in Tokens } }
    /\ suggestion = NoSuggestion
    /\ auto_fix = NoAutoFix

DebuggerNext == auto_fix_code

SpecDebugger == DebuggerInit /\ [][DebuggerNext]_vars

\* a debugger is constructed and asks for confirmation of every suggestion
ConfirmInit ==
    /\ ParserIdle /\ ContextIdle /\ AnalyzerIdle /\ ExtractorIdle /\ DebuggerIdle /\ ConfirmIdle /\ WebIdle
    /\ fs \in { d \in [Paths -> {NoFile} \cup {OldContent(p) : p \in Paths}] :
                  \A p \in Paths : d[p] \in {NoFile, OldContent(p)} }
    /\ backup_dir = FALSE
    /\ backups = [b \in BackupNames |-> NoFile]
    /\ clock = 0
    /\ pc = "new"
    /\ file_changes \in FileChanges
    /\ create_backup = TRUE
    /\ todo = {}
    /\ cur = <<"a.py">>
    /\ backup_path = NoBackup
    /\ results = EmptyMap
    /\ fs_before = fs
    /\ io_failed = {}
    /\ calls = 0

ConfirmNext ==
    \/ CodeFixer_init
    \/ confirm_begin
    \/ \E line \in RawInputs : confirm_input(line)
    \/ confirm_eof
    \/ Backup
    \/ Write
    \/ Tick
    \/ confirm_return

SpecConfirm == ConfirmInit /\ [][ConfirmNext]_vars

\* the responses of the pipeline: an object holding one file_changes member, an
\* object without one, a text without an object, a failed call
PipelineOutcomes ==
    { [kind |-> "network", content |-> <<>>], [kind |-> "content", content |-> <<"prose">>],
      [kind |-> "content", content |-> <<"{", "c=0.85", "}">>] }
    \cup { [kind |-> "content", content |-> <<"{", m, "}">>] : m \in FileChangeMembers }
    \cup { [kind |-> "content", content |-> <<"prose", "{", m, ",", "c=0.85", "}">>] :
              m \in FileChangeMembers }

\* analyze_and_fix, then apply_fix on its suggestion
PipelineInit ==
    /\ FixerInit /\ ParserIdle /\ ContextIdle /\ ExtractorIdle /\ DebuggerIdle /\ ConfirmIdle /\ WebIdle
    /\ remote \in PipelineOutcomes
    /\ suggestion = NoSuggestion

PipelineNext ==
    \/ CodeFixer_init
    \/ analyze
    \/ apply_suggestion
    \/ Backup
    \/ Write
    \/ Tick
    \/ Return

SpecPipeline == PipelineInit /\ [][PipelineNext]_vars

\* the server after start-up, with the requests that will arrive
WebInit ==
    /\ FixerIdle /\ ParserIdle /\ ContextIdle /\ AnalyzerIdle /\ ExtractorIdle
    /\ DebuggerIdle /\ ConfirmIdle
    /\ web_debugger = 0
    /\ heap = [i \in SetRequests |-> NoObject]
    /\ submitted \in [SetRequests -> Submissions]
    /\ set_pc = [i \in SetRequests |-> "start"]
    /\ dbg_pc = [j \in DebugRequests |-> "start"]
    /\ dbg_ref = [j \in DebugRequests |-> 0]
    /\ dbg_headers = [j \in DebugRequests |-> ""]
    /\ llm_calls = {}

WebNext ==
    \/ \E i \in SetRequests : set_api_key_construct(i)
    \/ \E i \in SetRequests : set_api_key_model(i)
    \/ \E j \in DebugRequests : debug_code_check(j)
    \/ \E j \in DebugRequests, code \in {"empty", "completes", "raises"} :
          debug_code_run(j, code)
    \/ \E j \in DebugRequests : call_llm_headers(j)
    \/ \E j \in DebugRequests : call_llm_post(j)

SpecWeb == WebInit /\ [][WebNext]_vars

(***************************************************************************)
(* Claims.                                                                 *)
(***************************************************************************)
Returned == suggestion.exc # "pending"

\* C1: analyze_and_fix never raises: whatever the remote call did (network error,
\* HTTP error status, malformed envelope, any returned text), it returns a
\* FixSuggestion.
C1_AnalyzeNeverRaises ==
    Returned => /\ suggestion.exc = "None"
                /\ DOMAIN suggestion.val = FixSuggestionFields

\* a response whose braces hold no JSON object was turned into a FixSuggestion
C1_Witness ==
    /\ suggestion.exc = "None"
    /\ remote.kind = "content"
    /\ parse_body([is_str |-> TRUE, text |-> remote.content]).exc = "JSONDecodeError"

\* C2: the confidence of the FixSuggestion analyze_and_fix returns lies in [0,1]
\* (0..100 hundredths), also when the response's JSON object carries one outside.
C2_ConfidenceInUnitInterval ==
    (Returned /\ suggestion.exc = "None")
        => (0 <= suggestion.val.confidence /\ suggestion.val.confidence <= 100)

\* the grammar's verdict on a proposed content, whatever the fixer's validation says
Parses(code) == ast_parse(code).exc = "None"

\* C3: a file whose proposed content fails syntax validation is never written by
\* apply_fix: its content stays what it was before the call, and its entry in the
\* result map is false.
C3_InvalidNeverWritten ==
    \A f \in DOMAIN file_changes :
        ~Parses(file_changes[f]) =>
            /\ fs[f] = fs_before[f]
            /\ f \in DOMAIN results => results[f] = FALSE
            /\ pc = "done" => f \in DOMAIN results

\* apply_fix returned with an existing file's unparsable content rejected
C3_Witness ==
    /\ pc = "done"
    /\ \E f \in DOMAIN file_changes :
          /\ ast_parse(file_changes[f]).exc = "SyntaxError"
          /\ exists(fs_before, f)
          /\ fs[f] = fs_before[f]
          /\ results[f] = FALSE

\* C4: apply_fix handles every entry of file_changes on its own: when it returns,
\* the result map has one boolean for each key of file_changes, and every file with
\* parsable content and no I/O error holds its proposed content, whatever happened
\* to the other files.
C4_FilesIndependent ==
    pc = "done" =>
        /\ DOMAIN results = DOMAIN file_changes
        /\ \A f \in DOMAIN results : results[f] \in BOOLEAN
        /\ \A f \in DOMAIN file_changes :
              (Parses(file_changes[f]) /\ f \notin io_failed) => fs[f] = file_changes[f]

\* apply_fix returned with one file failed on I/O and its sibling written
C4_Witness ==
    /\ pc = "done"
    /\ \E f, g \in DOMAIN file_changes :
          /\ f # g
          /\ g \in io_failed /\ results[g] = FALSE
          /\ results[f] = TRUE /\ fs[f] = file_changes[f] /\ fs[f] # fs_before[f]

\* C5: when a file's proposed content parses and no I/O error occurs, the file holds
\* exactly the proposed content after apply_fix and its result is true; a result is
\* true only for a file that was written.
C5_FullReplacement ==
    pc = "done" =>
        \A f \in DOMAIN file_changes \cap DOMAIN results :
            /\ (Parses(file_changes[f]) /\ f \notin io_failed)
                   => (fs[f] = file_changes[f] /\ results[f] = TRUE)
            /\ results[f] = TRUE
                   => (fs[f] = file_changes[f] /\ Parses(file_changes[f]))

\* apply_fix returned with an existing file replaced by its proposed content
C5_Witness ==
    /\ pc = "done"
    /\ \E f \in DOMAIN file_changes :
          /\ exists(fs_before, f)
          /\ results[f] = TRUE
          /\ fs[f] = file_changes[f]
          /\ fs[f] # fs_before[f]

\* C6: with create_backup true, a step that overwrites an existing file happens
\* after this iteration's backup was created and holds the file's content; a backup
\* is created only at the backup step of a file that exists, with create_backup true.
C6_BackupBeforeOverwrite ==
    [][ /\ \A f \in Paths :
              (fs'[f] # fs[f] /\ exists(fs, f) /\ create_backup)
                  => /\ cur = f
                     /\ backup_path # NoBackup
                     /\ backups[backup_path] = fs[f]
        /\ (backups' # backups \/ backup_path' \notin {NoBackup, backup_path})
              => (create_backup /\ pc = "backup" /\ exists(fs, cur))
      ]_vars

\* apply_fix overwrote an existing file and the backup directory holds its old content
C6_Witness ==
    /\ pc = "done"
    /\ create_backup
    /\ \E f \in DOMAIN results :
          /\ results[f] = TRUE
          /\ exists(fs_before, f)
          /\ fs[f] # fs_before[f]
          /\ \E b \in BackupNames : backups[b] = fs_before[f]

Parsed == error_info # NoErrorInfo

\* C7: parse_error reports the file, line and function of the last (innermost)
\* entry of the chain, and stack_trace holds the formatted text of every frame.
C7_InnermostFrame ==
    Parsed =>
        LET tb == exc_info.tb
            innermost == tb[Len(tb)]
        IN /\ error_info.file_path = innermost.co_filename
           /\ error_info.line_number = innermost.tb_lineno
           /\ error_info.function_name = innermost.co_name
           /\ \A i \in DOMAIN tb : FrameEntry(tb[i]) \in Range(error_info.stack_trace)

\* a chain of three or more frames whose outermost and innermost files differ
C7_Witness ==
    /\ Parsed
    /\ Len(exc_info.tb) >= 3
    /\ exc_info.tb[1].co_filename # exc_info.tb[Len(exc_info.tb)].co_filename
    /\ error_info.file_path = exc_info.tb[Len(exc_info.tb)].co_filename

\* C8: relevant_files holds no path that starts with "<" and no path twice.
C8_NoSyntheticNoDuplicates ==
    LET rf == error_info.relevant_files IN
    \A i \in DOMAIN rf :
        /\ ~startswith(rf[i], "<")
        /\ \A j \in DOMAIN rf : i # j => rf[i] # rf[j]

\* a chain with a synthetic frame and one .py file in two frames
C8_Witness ==
    /\ Parsed
    /\ error_info.relevant_files # <<>>
    /\ \E i, j, k \in DOMAIN exc_info.tb :
          /\ i # j
          /\ exc_info.tb[i].co_filename = exc_info.tb[j].co_filename
          /\ keeps(exc_info.tb[i].co_filename)
          /\ startswith(exc_info.tb[k].co_filename, "<")

ChainFiles == { exc_info.tb[i].co_filename : i \in DOMAIN exc_info.tb }

C10_Window ==
    LET lines == src_file.val
        N == Len(lines)
        L == line_number
        lo == Max(1, L - 10)
        hi == Min(N, L + 10)
        out == main_context.lines
    IN (main_context # NoContext /\ src_file.exc = "None" /\ 1 <= L /\ L <= N) =>
        /\ main_context.kind = "excerpt"
        /\ Len(out) = hi - lo + 1
        /\ \A k \in DOMAIN out :
              /\ out[k].number = lo + k - 1
              /\ out[k].text = rstrip(lines[lo + k - 1])
              /\ out[k].marker = ">>> " <=> out[k].number = L
        /\ Cardinality({ k \in DOMAIN out : out[k].marker = ">>> " }) = 1

\* a failing line with ten lines before it and ten after it, none clipped
C10_Witness ==
    /\ main_context.kind = "excerpt"
    /\ line_number > 11
    /\ Len(src_file.val) > line_number + 10
    /\ Len(main_context.lines) = 21

Extracted == context.exc # "pending"

\* the files of relevant_files, other than the primary file, that exist on disk
Related ==
    { f \in Range(extract_in.relevant_files) :
        f # extract_in.file_path /\ open_file(src_disk, f).exc # "FileNotFoundError" }

IsContent(entry, file) == entry.kind = "content" /\ entry.lines = file.val

IsLineCount(entry, file) ==
    entry.kind = "too_large" /\ entry.line_count = Len(file.val) /\ entry.lines = <<>>

\* C11 as stated: every relevant file other than the primary one that exists on disk
\* has an entry in extract_context's output: its entire content when it has at most
\* 100 lines, otherwise only a placeholder stating the line count.
C11_EntryForEveryExisting ==
    Extracted =>
        \A f \in Related :
            /\ f \in DOMAIN context.val
            /\ IF Len(src_disk[f].val) <= 100
               THEN IsContent(context.val[f], src_disk[f])
               ELSE IsLineCount(context.val[f], src_disk[f])

\* C11 amended: a relevant file other than the primary one that exists and can be read
\* has its entire content as entry when it has 1 to 100 lines, only a placeholder
\* stating the line count when it has more, and no entry when it is empty; one that
\* exists and cannot be read has an error placeholder as entry.
C11_EntryForNonEmpty ==
    Extracted =>
        \A f \in Related :
            LET file == src_disk[f]
                n == Len(file.val) IN
            CASE file.exc # "None" -> f \in DOMAIN context.val /\ context.val[f].kind = "error"
              [] file.exc = "None" /\ n = 0 -> f \notin DOMAIN context.val
              [] file.exc = "None" /\ n \in 1..100 ->
                    f \in DOMAIN context.val /\ IsContent(context.val[f], file)
              [] OTHER -> f \in DOMAIN context.val /\ IsLineCount(context.val[f], file)

\* a file of exactly 100 lines given whole, one of 101 lines given as a line count,
\* an empty one left out
C11_Witness ==
    /\ Extracted
    /\ \E f, g \in Related :
          /\ Len(src_disk[f].val) = 100 /\ f \in DOMAIN context.val
          /\ context.val[f].kind = "content"
          /\ Len(src_disk[g].val) = 101 /\ g \in DOMAIN context.val
          /\ context.val[g].kind = "too_large"

\* C12: every key of the mapping extract_context returns is the path of a file that
\* exists on disk, the primary file included.
C12_KeysExist ==
    Extracted =>
        \A k \in DOMAIN context.val : open_file(src_disk, k).exc # "FileNotFoundError"

ReadFails(f) == open_file(src_disk, f).exc # "None"

\* C13: extract_context never raises on an I/O failure: a file whose read fails has
\* an error placeholder as entry, and the files after it are still processed.
C13_NeverRaisesOnIO ==
    Extracted =>
        /\ context.exc = "None"
        /\ ReadFails(extract_in.file_path) =>
               /\ extract_in.file_path \in DOMAIN context.val
               /\ context.val[extract_in.file_path].kind = "error"
        /\ \A f \in Related :
               IF ReadFails(f)
               THEN f \in DOMAIN context.val /\ context.val[f].kind = "error"
               ELSE src_disk[f].val # <<>> =>
                       f \in DOMAIN context.val /\ context.val[f].kind # "error"

\* the primary file is missing, a relevant file cannot be read, and the file after it
\* in relevant_files is in the output with its content
C13_Witness ==
    /\ Extracted
    /\ context.exc = "None"
    /\ open_file(src_disk, extract_in.file_path).exc = "FileNotFoundError"
    /\ \E i, j \in 1..Len(extract_in.relevant_files) :
          LET f == extract_in.relevant_files[i]
              g == extract_in.relevant_files[j] IN
          /\ i < j
          /\ f \in Related /\ src_disk[f].exc = "OSError"
          /\ context.val[f].kind = "error"
          /\ g \in Related /\ g \in DOMAIN context.val
          /\ context.val[g].kind = "content"

\* the response is a text with no "{" that has a "}" somewhere after it
NoBracedObject ==
    /\ remote.kind = "content"
    /\ ~ \E i, j \in DOMAIN remote.content :
           i < j /\ remote.content[i] = "{" /\ remote.content[j] = "}"

\* C14: a response text with no brace-delimited object gives a FixSuggestion whose
\* analysis is the entire raw response, with confidence 0.3, exactly one replication
\* step and empty file_changes.
C14_UnstructuredFallback ==
    (Returned /\ NoBracedObject) =>
        /\ suggestion.exc = "None"
        /\ suggestion.val.analysis = JStr(remote.content)
        /\ suggestion.val.confidence = 30
        /\ suggestion.val.replication_steps.ty = "array"
        /\ Len(suggestion.val.replication_steps.items) = 1
        /\ suggestion.val.file_changes = JObject

\* a response with braces in the wrong order and a member between them
C14_Witness ==
    /\ Returned /\ NoBracedObject
    /\ \E i, j \in DOMAIN remote.content :
          i < j /\ remote.content[i] = "}" /\ remote.content[j] = "{"
    /\ \E i \in DOMAIN remote.content : remote.content[i] \in Members
    /\ suggestion.val.confidence = 30

\* the value a decoded object gives for a key
Field(data, key, default) == IF key \in DOMAIN data THEN data[key] ELSE default

\* the text from the first "{" to the last "}" of the response, when there is one
Braced == re_search(remote.content)

\* that text does not decode, or its confidence does not convert
ParseFails ==
    /\ remote.kind = "content"
    /\ Braced.found
    /\ LET data == json_loads(Braced.group) IN
       \/ data.exc # "None"
       \/ float(Field(data.val, "confidence", JNum(50))).exc # "None"

\* text ends with tail
EndsWith(text, tail) ==
    /\ Len(text) >= Len(tail)
    /\ SubSeq(text, Len(text) - Len(tail) + 1, Len(text)) = tail

\* C15: every failure path of analyze_and_fix gives a FixSuggestion with confidence
\* 0.0 and empty file_changes: a failed remote call, a braced text that does not
\* decode as JSON, a field conversion that raises; on a parse failure the analysis
\* embeds the raw response.
C15_FailurePaths ==
    Returned =>
        /\ remote.kind \in {"network", "http", "envelope"} =>
               /\ suggestion.exc = "None"
               /\ suggestion.val.confidence = 0
               /\ suggestion.val.file_changes = JObject
        /\ ParseFails =>
               /\ suggestion.exc = "None"
               /\ suggestion.val.confidence = 0
               /\ suggestion.val.file_changes = JObject
               /\ suggestion.val.analysis.ty = "string"
               /\ EndsWith(suggestion.val.analysis.str, remote.content)

\* an object that decodes and whose confidence is null, after some prose
C15_Witness ==
    /\ Returned /\ ParseFails
    /\ json_loads(Braced.group).exc = "None"
    /\ remote.content[1] = "prose"
    /\ suggestion.val.confidence = 0
    /\ Len(suggestion.val.analysis.str) > Len(remote.content)

\* the braced text decodes as a JSON object
Decodes ==
    /\ remote.kind = "content"
    /\ Braced.found
    /\ json_loads(Braced.group).exc = "None"

Decoded == json_loads(Braced.group).val

\* every field but confidence is the object's value for its key, or its default
FieldsFromObject ==
    /\ suggestion.val.analysis = Field(Decoded, "analysis", JStr(<<"No analysis provided">>))
    /\ suggestion.val.root_cause = Field(Decoded, "root_cause", JStr(<<"Unknown">>))
    /\ suggestion.val.fix_description =
           Field(Decoded, "fix_description", JStr(<<"No fix description">>))
    /\ suggestion.val.replication_steps = Field(Decoded, "replication_steps", JArray(<<>>))
    /\ suggestion.val.file_changes = Field(Decoded, "file_changes", JObject)
    /\ suggestion.val.modified_code = JStr(<<>>)

\* C16 as stated: when the braced text decodes as a JSON object, each field of the
\* FixSuggestion is the object's value for that key, an absent key takes its default
\* (confidence 0.5), and modified_code is empty.
C16_FieldsAreObjectValues ==
    (Returned /\ Decodes) =>
        /\ FieldsFromObject
        /\ JNum(suggestion.val.confidence) = Field(Decoded, "confidence", JNum(50))

\* C16 amended: when the braced text decodes as a JSON object and float() accepts its
\* confidence value (default 0.5), confidence is float() of that value and every other
\* field is the object's value for its key or its default, modified_code empty; when
\* float() rejects the confidence value, no field is taken from the object and the
\* result is the parse-failure suggestion with confidence 0.0.
C16_FieldsWhenConfidenceConverts ==
    (Returned /\ Decodes) =>
        LET c == Field(Decoded, "confidence", JNum(50))
            number == \/ c.ty = "number"
                      \/ c.ty = "string" /\ c.str = <<"0.9">>
        IN IF number
           THEN /\ FieldsFromObject
                /\ suggestion.val.confidence = (IF c.ty = "number" THEN c.num ELSE 90)
           ELSE /\ suggestion.val.confidence = 0
                /\ suggestion.val.root_cause = JStr(<<"Response parsing failed">>)
                /\ suggestion.val.file_changes = JObject

\* an object holding a root cause only: the other fields take their defaults
C16_Witness ==
    /\ Returned /\ Decodes
    /\ DOMAIN Decoded = {"root_cause"}
    /\ suggestion.val.root_cause = JStr(<<"why">>)
    /\ suggestion.val.analysis = JStr(<<"No analysis provided">>)
    /\ suggestion.val.confidence = 50

Ran == auto_fix.exc # "pending"

\* C17: auto_fix_code returns None exactly when executing the target completes
\* without raising; whenever the execution raises, the exception is captured and the
\* FixSuggestion of the debugging workflow is returned instead of propagating.
C17_CapturesEveryException ==
    Ran =>
        /\ auto_fix.exc = "None"
        /\ auto_fix.none <=> target_run.kind = "completes"
        /\ target_run.kind = "raises" =>
               suggestion.exc = "None" /\ DOMAIN suggestion.val = FixSuggestionFields

Answered == ui = "returned"

Updated(f) == fs[f] = file_changes[f]

\* C18: apply_fix_with_confirmation returns true only when the user chose to apply
\* and every targeted file was updated on disk; it returns false when the user
\* declined or at least one targeted file was not updated.
C18_TrueOnlyWhenAllUpdated ==
    Answered =>
        /\ answer => /\ choice = <<"y">>
                     /\ \A f \in DOMAIN file_changes : Updated(f)
        /\ choice = <<"n">> => ~answer
        /\ (\E f \in DOMAIN file_changes : ~Updated(f)) => ~answer

\* the user typed "Y ", both targeted files were rewritten, the answer is true
C18_Witness ==
    /\ Answered /\ answer
    /\ raw = <<"Y", " ">>
    /\ Cardinality(DOMAIN file_changes) = 2
    /\ \A f \in DOMAIN file_changes : Updated(f) /\ fs_before[f] # fs[f]

Asked == prompts' = prompts + 1

\* apply_fix starts at most once, and only on the input 'y'
ApplyOnlyOnYes == calls' # calls => calls = 0 /\ Asked /\ choice' = <<"y">>

\* 's' and unrecognized inputs change no file and no backup and lead to another prompt
OtherInputsAskAgain ==
    (Asked /\ choice' \notin {<<"y">>, <<"n">>}) =>
        /\ fs' = fs /\ backups' = backups /\ backup_dir' = backup_dir
        /\ ui' = "prompt"

\* 'n' ends the loop with no file modified and no backup created
NoEndsUntouched ==
    (Asked /\ choice' = <<"n">>) =>
        /\ ui' = "returned"
        /\ calls' = 0
        /\ fs' = fs_before'
        /\ \A b \in BackupNames : backups'[b] = NoFile

LeavesLoop == ui = "prompt" /\ ui' # "prompt"

C20_DirCreatedLazily == backup_dir => calls > 0

\* C20 amended: the backup directory is created when the CodeFixer is constructed:
\* it exists from the end of the constructor on, before any fix is applied.
C20_DirCreatedAtConstruction == pc # "new" => backup_dir

\* a fixer that was constructed and never used, with its backup directory on disk
C20_Witness == pc = "idle" /\ calls = 0 /\ backup_dir

\* C21: for every FixSuggestion analyze_and_fix can return, apply_fix does not
\* raise: whatever JSON value the response gave for file_changes, the call ends with
\* per-file booleans.
C21_ApplyNeverRaises ==
    /\ pc # "raised"
    /\ (pc = "done" /\ Returned) =>
           /\ dict_items(suggestion.val.file_changes).exc = "None"
           /\ DOMAIN results = DOMAIN file_changes
           /\ \A f \in DOMAIN results : results[f] \in BOOLEAN

\* C22: backups are purely additive: once a backup file exists, no later backup step
\* removes it or overwrites its content, also for two files that share a basename
\* and are backed up within the same second.
C22_BackupsAdditive ==
    [][\A b \in BackupNames : backups[b] # NoFile => backups'[b] = backups[b]]_vars

\* an exception that except Exception catches, raised in a frame of the code exec ran
RaisedInTarget ==
    /\ target_run.kind = "raises"
    /\ IsException(target_run.type)
    /\ target_run.tb[Len(target_run.tb)].co_name # "auto_fix_code"
    /\ target_run.tb[Len(target_run.tb)].co_filename # <<"lib", ".py">>

\* C23: when auto_fix_code captures an exception raised inside the target file's own
\* code, the ErrorInfo names the target file as the failing file, and the context map
\* holds the line-numbered window of the target file around the failing line.
C23_ErrorInfoNamesTarget ==
    (Ran /\ RaisedInTarget) =>
        /\ error_info.file_path = TargetFile
        /\ TargetFile \in DOMAIN context.val
        /\ context.val[TargetFile].kind = "excerpt"

\* the (api_key, model) pairs that one set-api-key request carried together
SubmittedPairs ==
    { [api_key |-> submitted[i].api_key, model |-> model_of(submitted[i])] :
        i \in { k \in SetRequests : submitted[k].api_key # "" } }

\* C24: under any interleaving of concurrent set-api-key and debug-code requests,
\* every LLM call made for a debug-code request uses an (api_key, model) pair that
\* one single set-api-key request submitted.
C24_KeyAndModelSubmittedTogether == llm_calls \subseteq SubmittedPairs

====
